---- MODULE Spec2Model ----
(***************************************************************************)
(* RSSKING: the ingestion run of fetcher.py (fetch, correlate, score,      *)
(* deduplicate, insert, retention sweep), its scorer score_item, and the   *)
(* digest run of digest.py (summarizer response handling, pick             *)
(* validation).                                                            *)
(*                                                                         *)
(* Time is counted in whole days; an ingestion run reads one clock value.  *)
(* Scores are kept in hundredths of a point, the precision round(score, 2) *)
(* leaves.  Strings that the code strips or scans are sequences of         *)
(* characters (links) or of words (titles, summaries, tag terms).          *)
(***************************************************************************)
EXTENDS Integers, Sequences, FiniteSets, TLC

(***************************************************************************)
(* Bounds of the model                                                     *)
(***************************************************************************)
\* rows of the feeds table that are active
MaxFeeds == 3
\* the clock reading of the run, in days
Today == 100

(***************************************************************************)
(* Program constants, fetcher.py                                           *)
(***************************************************************************)
MAX_AGE_DAYS == 30
TIME_DECAY_MAX == 50
MULTI_SOURCE_BUMP == 40
METADATA_BUMP == 30
TITLE_PATTERN_BUMP == 20
KEYWORD_PENALTY == -30
\* chunk_size of main
chunk_size == 100

\* an optional value is a sequence of at most one element; None is the empty one
None == <<>>
Some(x) == <<x>>
The(opt) == opt[1]

TIER_WEIGHTS == [t \in {1, 2} |-> IF t = 1 THEN 40 ELSE 20]

BREAKING_WORDS == {"breaking", "urgent", "flash", "alert", "exclusive"}

NOISE_KEYWORDS ==
    { <<"sponsored">>, <<"advertisement">>, <<"buy", "now">>,
      <<"subscribe", "now">>, <<"limited", "offer">>, <<"click", "here">> }

METADATA_TAGS == {"featured", "breaking", "top-news", "editors-pick"}

(***************************************************************************)
(* Helpers                                                                 *)
(***************************************************************************)
Max(a, b) == IF a >= b THEN a ELSE b
Min(a, b) == IF a <= b THEN a ELSE b

SeqsUpTo(S, n) == UNION { [1..k -> S] : k \in 0..n }

Range(s) == { s[i] : i \in DOMAIN s }

\* str.lower on the words the model uses
Lower(w) ==
    CASE w = "BREAKING" -> "breaking"
      [] w = "Featured" -> "featured"
      [] w = "Sponsored" -> "sponsored"
      [] w = "Market" -> "market"
      [] OTHER -> w

LowerAll(ws) == [i \in DOMAIN ws |-> Lower(ws[i])]

\* kw in text, on word sequences: kw occurs as a contiguous run of text
Contains(text, kw) ==
    \E i \in 0..(Len(text) - Len(kw)) :
        \A j \in 1..Len(kw) : text[i + j] = kw[j]

\* str.strip on a sequence of characters
IsSpace(c) == c = " "

RECURSIVE lstrip(_)
lstrip(s) ==
    IF s # <<>> /\ IsSpace(Head(s)) THEN lstrip(Tail(s)) ELSE s

RECURSIVE rstrip(_)
rstrip(s) ==
    IF s # <<>> /\ IsSpace(s[Len(s)]) THEN rstrip(SubSeq(s, 1, Len(s) - 1)) ELSE s

strip(s) == rstrip(lstrip(s))

\* n / d rounded to the nearest integer, for n >= 0 and d > 0
RoundDiv(n, d) == (2 * n + d) \div (2 * d)


(***************************************************************************)
(* Inputs of an ingestion run                                              *)
(***************************************************************************)
\* a row of the feeds table; tier 3 is a tier TIER_WEIGHTS does not know
FeedRow(i) ==
    [ id        |-> i,
      name      |-> <<"source", i>>,
      tier      |-> ((i - 1) % 3) + 1,
      category  |-> IF i % 2 = 1 THEN "World" ELSE "Tech",
      max_items |-> IF i = 1 THEN 2 ELSE 1 ]

\* entry.link as the feed document gives it: absent, clean, padded
Links == { <<>>, <<"u">>, <<"u", " ">>, <<"v">> }

\* entry.published_parsed: absent, a time struct datetime() rejects, or a day
TimeStruct(day, valid) == [day |-> day, valid |-> valid]
PublishedParsed ==
    { None,
      Some(TimeStruct(Today - 15, FALSE)),
      Some(TimeStruct(Today - (MAX_AGE_DAYS + 1), TRUE)),
      Some(TimeStruct(Today - 15, TRUE)) }

\* the article behind a link: the same article carries the same text everywhere
ArticleTags(url) == IF url = <<"v">> THEN <<"Featured">> ELSE <<>>
ArticleTitle(url) ==
    IF url = <<"v">> THEN <<"BREAKING", "market", "news">> ELSE <<"Market", "drops">>
ArticleSummary(url) ==
    IF url = <<"v">> THEN <<"Sponsored", "story">> ELSE <<"plain", "story">>

FeedEntry(link, pp) ==
    [ link             |-> link,
      published_parsed |-> pp,
      tags             |-> ArticleTags(strip(link)),
      title            |-> ArticleTitle(strip(link)),
      summary          |-> ArticleSummary(strip(link)) ]

FeedEntries == { FeedEntry(l, pp) : l \in Links, pp \in PublishedParsed }

\* parsed.entries of one fetched feed document: up to one entry more than the
\* feed's max_items lets through
ParsedFeeds(feed) == SeqsUpTo(FeedEntries, feed.max_items + 1)

\* a row of the items table
ItemRow(url, published_at, fetched_at) ==
    [ url |-> url, published_at |-> published_at, fetched_at |-> fetched_at ]

\* rows left in the items table by earlier runs: published 31 days ago, published
\* 29 days ago, and undated and fetched 31 days ago
OldRow == ItemRow(<<"x">>, Some(Today - (MAX_AGE_DAYS + 1)), Today - (MAX_AGE_DAYS + 1))
RecentRow == ItemRow(<<"u">>, Some(Today - (MAX_AGE_DAYS - 1)), Today - (MAX_AGE_DAYS - 1))
UndatedRow == ItemRow(<<"w">>, None, Today - (MAX_AGE_DAYS + 1))

\* the items table before the run
InitialStores == { {}, {OldRow, RecentRow, UndatedRow} }

(***************************************************************************)
(* fetcher.py: pure functions                                              *)
(***************************************************************************)
\* parse_published: a datetime (a day) from the entry, or None
parse_published(entry) ==
    IF entry.published_parsed = None THEN None
    ELSE IF ~The(entry.published_parsed).valid THEN None
    ELSE Some(The(entry.published_parsed).day)

\* TIER_WEIGHTS.get(feed.get("tier", 2), 20)
TierWeight(feed) ==
    IF feed.tier \in DOMAIN TIER_WEIGHTS THEN TIER_WEIGHTS[feed.tier] ELSE 20

\* decay * TIME_DECAY_MAX in hundredths; 0 when the entry has no date
TimeDecay(item, now) ==
    IF item.published_dt = None THEN 0
    ELSE LET age_days == now - The(item.published_dt)
             \* max(0, 1 - age_days / MAX_AGE_DAYS), times MAX_AGE_DAYS
             decay    == Max(0, MAX_AGE_DAYS - age_days)
         IN  RoundDiv(decay * TIME_DECAY_MAX * 100, MAX_AGE_DAYS)

\* url_feed_count.get(item.get("link", ""), 1)
CorrelationLookup(item, url_feed_count) ==
    IF item.link \in DOMAIN url_feed_count THEN url_feed_count[item.link] ELSE 1

MultiSource(item, url_feed_count) ==
    IF CorrelationLookup(item, url_feed_count) >= 3 THEN MULTI_SOURCE_BUMP ELSE 0

MetadataBump(item) ==
    IF \E i \in DOMAIN item.tags : Lower(item.tags[i]) \in METADATA_TAGS
    THEN METADATA_BUMP ELSE 0

TitlePattern(item) ==
    IF \E i \in DOMAIN item.title : Lower(item.title[i]) \in BREAKING_WORDS
    THEN TITLE_PATTERN_BUMP ELSE 0

NoisePenalty(item) ==
    LET combined == LowerAll(item.title \o item.summary)
    IN  IF \E kw \in NOISE_KEYWORDS : Contains(combined, kw)
        THEN KEYWORD_PENALTY ELSE 0

\* score_item, in hundredths of a point
score_item(item, feed, url_feed_count, now) ==
    100 * TierWeight(feed)
    + TimeDecay(item, now)
    + 100 * MultiSource(item, url_feed_count)
    + 100 * MetadataBump(item)
    + 100 * TitlePattern(item)
    + 100 * NoisePenalty(item)

(***************************************************************************)
(* fetcher.py: main                                                        *)
(***************************************************************************)
VARIABLES
    pc,             \* where main stands
    db_feeds,       \* the active rows of the feeds table
    store,          \* the items table
    feeds, existing_urls, url_feed_count, all_candidates,
    fi,             \* index of the feed the first pass fetches next
    new_items, seen_urls,
    ci,             \* index of the candidate the second pass takes next
    ck,             \* i of the insert loop
    inserted,
    failed,         \* ids of the feeds whose fetch raised
    offered,        \* <<feed id, url>> of the fresh, linked entries fetched
    used_counts,    \* per new item, the correlation count its score read
    attempted,      \* store operations attempted
    errors          \* store operations that raised

ingest_vars ==
    << pc, db_feeds, store, feeds, existing_urls, url_feed_count, all_candidates,
       fi, new_items, seen_urls, ci, ck, inserted, failed, offered, used_counts,
       attempted, errors >>

(***************************************************************************)
(* State of the scorer on its own, and of the digest run of digest.py      *)
(***************************************************************************)
VARIABLES
    s_pc,           \* "input" before score_item is called, "scored" after
    s_item, s_feed, s_count, s_now,     \* the arguments and the clock
    s_score         \* what score_item returned

score_vars == << s_pc, s_item, s_feed, s_count, s_now, s_score >>

VARIABLES
    d_pc,           \* where main of digest.py stands
    users,
    d_ui,           \* index of the user the loop takes next
    digests,        \* the digests table, in insertion order
    d_last,         \* the user, items and summarizer reply handled last
    d_unusable      \* users whose summarizer reply was not usable

digest_vars == << d_pc, users, d_ui, digests, d_last, d_unusable >>

vars == << ingest_vars, score_vars, digest_vars >>

not_ingest == << score_vars, digest_vars >>
not_score == << ingest_vars, digest_vars >>
not_digest == << ingest_vars, score_vars >>

cutoff == Today - MAX_AGE_DAYS

EmptyCount == [u \in {} |-> 0]

InitIngest ==
    /\ pc = "start"
    /\ db_feeds \in { [i \in 1..n |-> FeedRow(i)] : n \in 0..MaxFeeds }
    /\ store \in InitialStores
    /\ feeds = <<>>
    /\ existing_urls = {}
    /\ url_feed_count = EmptyCount
    /\ all_candidates = <<>>
    /\ fi = 1
    /\ new_items = <<>>
    /\ seen_urls = {}
    /\ ci = 1
    /\ ck = 0
    /\ inserted = 0
    /\ failed = {}
    /\ offered = {}
    /\ used_counts = <<>>
    /\ attempted = {}
    /\ errors = {}

\* fetch_existing_urls
fetch_existing_urls(items) == { row.url : row \in items }

\* lines 135-153: load the feeds, return when there is none, load the urls
Begin ==
    /\ pc = "start"
    /\ feeds' = db_feeds
    /\ IF db_feeds = <<>>
       THEN /\ pc' = "done"
            /\ UNCHANGED existing_urls
       ELSE /\ pc' = "fetch"
            /\ existing_urls' = fetch_existing_urls(store)
    /\ url_feed_count' = EmptyCount
    /\ all_candidates' = <<>>
    /\ fi' = 1
    /\ UNCHANGED not_ingest
    /\ UNCHANGED << db_feeds, store, new_items, seen_urls, ci, ck, inserted,
                    failed, offered, used_counts, attempted, errors >>

\* the body of the entry loop, lines 164-177, folded over entries
RECURSIVE FirstPass(_, _, _, _)
FirstPass(entries, feed, count, cands) ==
    IF entries = <<>> THEN [count |-> count, cands |-> cands]
    ELSE LET entry     == Head(entries)
             url       == strip(entry.link)
             published == parse_published(entry)
             kept      == [ link         |-> entry.link,
                            published_dt |-> published,
                            tags         |-> entry.tags,
                            title        |-> entry.title,
                            summary      |-> entry.summary ]
         IN  IF url = <<>> THEN FirstPass(Tail(entries), feed, count, cands)
             ELSE IF published # None /\ The(published) < cutoff
                  THEN FirstPass(Tail(entries), feed, count, cands)
             ELSE FirstPass(
                      Tail(entries), feed,
                      [u \in DOMAIN count \cup {url} |->
                          IF u = url
                          THEN (IF url \in DOMAIN count THEN count[url] ELSE 0) + 1
                          ELSE count[u]],
                      Append(cands, [entry |-> kept, feed |-> feed]))

\* parsed.entries[: feed.get("max_items", 10)]
CutEntries(parsed, feed) == SubSeq(parsed, 1, Min(Len(parsed), feed.max_items))

\* what a fetched feed offers: its cut entries that have a link and are not stale
Offered(parsed, feed) ==
    { <<feed.id, strip(e.link)>> :
        e \in { x \in Range(CutEntries(parsed, feed)) :
                  /\ strip(x.link) # <<>>
                  /\ \/ x.published_parsed = None
                     \/ ~The(x.published_parsed).valid
                     \/ The(x.published_parsed).day >= cutoff } }

\* lines 155-177, feedparser.parse returned
FetchOk ==
    /\ pc = "fetch"
    /\ fi <= Len(feeds)
    /\ \E parsed \in ParsedFeeds(feeds[fi]) :
          LET feed == feeds[fi]
              r    == FirstPass(CutEntries(parsed, feed), feed,
                                url_feed_count, all_candidates)
          IN  /\ url_feed_count' = r.count
              /\ all_candidates' = r.cands
              /\ offered' = offered \cup Offered(parsed, feed)
    /\ fi' = fi + 1
    /\ UNCHANGED not_ingest
    /\ UNCHANGED << pc, db_feeds, store, feeds, existing_urls, new_items, seen_urls,
                    ci, ck, inserted, failed, used_counts, attempted, errors >>

\* a fetch failure that ends the run instead of skipping the feed
FetchFail_Abort ==
    /\ pc = "fetch"
    /\ fi <= Len(feeds)
    /\ failed' = failed \cup {feeds[fi].id}
    /\ pc' = "done"
    /\ UNCHANGED not_ingest
    /\ UNCHANGED << db_feeds, store, feeds, existing_urls, url_feed_count,
                    all_candidates, fi, new_items, seen_urls, ci, ck, inserted,
                    offered, used_counts, attempted, errors >>

\* lines 157-161, feedparser.parse raised: log and continue
FetchFail ==
    /\ pc = "fetch"
    /\ fi <= Len(feeds)
    /\ failed' = failed \cup {feeds[fi].id}
    /\ fi' = fi + 1
    /\ UNCHANGED not_ingest
    /\ UNCHANGED << pc, db_feeds, store, feeds, existing_urls, url_feed_count,
                    all_candidates, new_items, seen_urls, ci, ck, inserted,
                    offered, used_counts, attempted, errors >>

\* lines 179-181: the feed loop is over, the second pass starts
EndFetch ==
    /\ pc = "fetch"
    /\ fi > Len(feeds)
    /\ pc' = "score"
    /\ new_items' = <<>>
    /\ seen_urls' = {}
    /\ ci' = 1
    /\ UNCHANGED not_ingest
    /\ UNCHANGED << db_feeds, store, feeds, existing_urls, url_feed_count,
                    all_candidates, fi, ck, inserted, failed, offered,
                    used_counts, attempted, errors >>

\* a dedup test that forgets the persisted urls
IsDuplicate_SeenOnly(url, existing, seen) == url \in seen

\* line 187: url in existing_urls or url in seen_urls
IsDuplicate(url, existing, seen) == url \in existing \/ url \in seen

\* lines 194-203
NewItem(entry, feed, url, score) ==
    [ feed_id      |-> feed.id,
      url          |-> url,
      published_at |-> entry.published_dt,
      score        |-> score,
      category     |-> feed.category,
      source_name  |-> feed.name ]

\* a second pass that adds no url to seen_urls
SecondPassStep_NoSeen ==
    /\ pc = "score"
    /\ ci <= Len(all_candidates)
    /\ LET entry == all_candidates[ci].entry
           feed  == all_candidates[ci].feed
           url   == strip(entry.link)
       IN  IF IsDuplicate(url, existing_urls, seen_urls)
           THEN UNCHANGED << seen_urls, new_items, used_counts >>
           ELSE /\ UNCHANGED seen_urls
                /\ new_items' =
                      Append(new_items,
                             NewItem(entry, feed, url,
                                     score_item(entry, feed, url_feed_count, Today)))
                /\ used_counts' =
                      Append(used_counts, CorrelationLookup(entry, url_feed_count))
    /\ ci' = ci + 1
    /\ UNCHANGED not_ingest
    /\ UNCHANGED << pc, db_feeds, store, feeds, existing_urls, url_feed_count,
                    all_candidates, fi, ck, inserted, failed, offered,
                    attempted, errors >>

\* lines 183-203, one candidate
SecondPassStep ==
    /\ pc = "score"
    /\ ci <= Len(all_candidates)
    /\ LET entry == all_candidates[ci].entry
           feed  == all_candidates[ci].feed
           url   == strip(entry.link)
       IN  IF IsDuplicate(url, existing_urls, seen_urls)
           THEN UNCHANGED << seen_urls, new_items, used_counts >>
           ELSE /\ seen_urls' = seen_urls \cup {url}
                /\ new_items' =
                      Append(new_items,
                             NewItem(entry, feed, url,
                                     score_item(entry, feed, url_feed_count, Today)))
                /\ used_counts' =
                      Append(used_counts, CorrelationLookup(entry, url_feed_count))
    /\ ci' = ci + 1
    /\ UNCHANGED not_ingest
    /\ UNCHANGED << pc, db_feeds, store, feeds, existing_urls, url_feed_count,
                    all_candidates, fi, ck, inserted, failed, offered,
                    attempted, errors >>

\* lines 205-213: return when nothing is new, else start the insert loop
EndSecondPass ==
    /\ pc = "score"
    /\ ci > Len(all_candidates)
    /\ pc' = IF new_items = <<>> THEN "done" ELSE "insert"
    /\ ck' = 0
    /\ inserted' = 0
    /\ UNCHANGED not_ingest
    /\ UNCHANGED << db_feeds, store, feeds, existing_urls, url_feed_count,
                    all_candidates, fi, new_items, seen_urls, ci, failed, offered,
                    used_counts, attempted, errors >>

\* new_items[i : i + chunk_size]
Chunk(items, i) == SubSeq(items, i + 1, Min(i + chunk_size, Len(items)))

\* the rows an insert of chunk adds; fetched_at is assigned by the store
InsertedRows(chunk) ==
    { ItemRow(chunk[k].url, chunk[k].published_at, Today) : k \in DOMAIN chunk }

\* lines 214-219: the chunk is inserted
InsertOk ==
    /\ pc = "insert"
    /\ ck < Len(new_items)
    /\ store' = store \cup InsertedRows(Chunk(new_items, ck))
    /\ inserted' = inserted + Len(Chunk(new_items, ck))
    /\ attempted' = attempted \cup {<<"insert", ck>>}
    /\ ck' = ck + chunk_size
    /\ UNCHANGED not_ingest
    /\ UNCHANGED << pc, db_feeds, feeds, existing_urls, url_feed_count,
                    all_candidates, fi, new_items, seen_urls, ci, failed, offered,
                    used_counts, errors >>

\* lines 220-221: the insert raised, the loop goes on
InsertFail ==
    /\ pc = "insert"
    /\ ck < Len(new_items)
    /\ attempted' = attempted \cup {<<"insert", ck>>}
    /\ errors' = errors \cup {<<"insert", ck>>}
    /\ ck' = ck + chunk_size
    /\ UNCHANGED not_ingest
    /\ UNCHANGED << pc, db_feeds, store, feeds, existing_urls, url_feed_count,
                    all_candidates, fi, new_items, seen_urls, ci, inserted, failed,
                    offered, used_counts >>

\* lines 223-227: the insert loop is over
EndInsert ==
    /\ pc = "insert"
    /\ ck >= Len(new_items)
    /\ pc' = "sweep"
    /\ UNCHANGED not_ingest
    /\ UNCHANGED << db_feeds, store, feeds, existing_urls, url_feed_count,
                    all_candidates, fi, new_items, seen_urls, ci, ck, inserted,
                    failed, offered, used_counts, attempted, errors >>

old_cutoff == Today - MAX_AGE_DAYS

\* delete().lt("published_at", old_cutoff): a null published_at matches nothing
DeletePublished(items) ==
    { r \in items : ~(r.published_at # None /\ The(r.published_at) < old_cutoff) }

\* delete().is_("published_at", "null").lt("fetched_at", old_cutoff)
DeleteFetched(items) ==
    { r \in items : ~(r.published_at = None /\ r.fetched_at < old_cutoff) }

\* lines 228-231: both deletes succeed
SweepOk ==
    /\ pc = "sweep"
    /\ store' = DeleteFetched(DeletePublished(store))
    /\ attempted' = attempted \cup {<<"delete", "published_at">>, <<"delete", "fetched_at">>}
    /\ pc' = "done"
    /\ UNCHANGED not_ingest
    /\ UNCHANGED << db_feeds, feeds, existing_urls, url_feed_count, all_candidates,
                    fi, new_items, seen_urls, ci, ck, inserted, failed, offered,
                    used_counts, errors >>

\* line 229 raises: the except clause of line 232 ends the sweep
SweepFailFirst ==
    /\ pc = "sweep"
    /\ attempted' = attempted \cup {<<"delete", "published_at">>}
    /\ errors' = errors \cup {<<"delete", "published_at">>}
    /\ pc' = "done"
    /\ UNCHANGED not_ingest
    /\ UNCHANGED << db_feeds, store, feeds, existing_urls, url_feed_count,
                    all_candidates, fi, new_items, seen_urls, ci, ck, inserted,
                    failed, offered, used_counts >>

\* line 229 succeeds, line 230 raises
SweepFailSecond ==
    /\ pc = "sweep"
    /\ store' = DeletePublished(store)
    /\ attempted' = attempted \cup {<<"delete", "published_at">>, <<"delete", "fetched_at">>}
    /\ errors' = errors \cup {<<"delete", "fetched_at">>}
    /\ pc' = "done"
    /\ UNCHANGED not_ingest
    /\ UNCHANGED << db_feeds, feeds, existing_urls, url_feed_count, all_candidates,
                    fi, new_items, seen_urls, ci, ck, inserted, failed, offered,
                    used_counts >>

NextIngest ==
    \/ Begin
    \/ FetchOk
    \/ FetchFail
    \/ EndFetch
    \/ SecondPassStep
    \/ EndSecondPass
    \/ InsertOk
    \/ InsertFail
    \/ EndInsert
    \/ SweepOk
    \/ SweepFailFirst
    \/ SweepFailSecond

(***************************************************************************)
(* score_item on its own                                                   *)
(***************************************************************************)
\* days before and beyond the retention window that publish dates range over
MaxAhead == 2

ScoreDates == { Today - a : a \in (0 - MaxAhead)..(MAX_AGE_DAYS + MaxAhead) }

ScoreItems ==
    { [ link         |-> l,
        published_dt |-> pd,
        tags         |-> ArticleTags(strip(l)),
        title        |-> ArticleTitle(strip(l)),
        summary      |-> ArticleSummary(strip(l)) ] :
      l \in Links \ {<<>>}, pd \in {None} \cup { Some(d) : d \in ScoreDates } }

ScoreCounts == {EmptyCount} \cup { [u \in {<<"u">>} |-> c] : c \in 1..MaxFeeds }

IdleScore ==
    /\ s_pc = "idle"
    /\ s_item = None
    /\ s_feed = None
    /\ s_count = EmptyCount
    /\ s_now = Today
    /\ s_score = None

InitScore ==
    /\ s_pc = "input"
    /\ s_item \in ScoreItems
    /\ s_feed \in { FeedRow(i) : i \in 1..MaxFeeds }
    /\ s_count \in ScoreCounts
    /\ s_now = Today
    /\ s_score = None

\* one call of score_item
ScoreItem ==
    /\ s_pc = "input"
    /\ s_score' = Some(score_item(s_item, s_feed, s_count, s_now))
    /\ s_pc' = "scored"
    /\ UNCHANGED << s_item, s_feed, s_count, s_now >>
    /\ UNCHANGED not_score

(***************************************************************************)
(* digest.py                                                               *)
(***************************************************************************)
TIME_WINDOW_HOURS == 24

\* users with an active feed
MaxUsers == 2
\* recent items of one user (the program caps them at MAX_ARTICLES)
MaxRecent == 2
\* picks in one summarizer response
MaxPicks == 2

\* JSON values as json.loads returns them, tagged with their Python type
JNull == [type |-> "NoneType"]
JBool(b) == [type |-> "bool", b |-> b]
JInt(n) == [type |-> "int", n |-> n]
JFloat(tenths) == [type |-> "float", tenths |-> tenths]
JStr(str) == [type |-> "str", s |-> str]
JList(xs) == [type |-> "list", xs |-> xs]
JDict(fields) == [type |-> "dict", fields |-> fields]

EmptyFields == [k \in {} |-> JNull]

\* dict.get(key), None when the key is absent
Get(d, key) == IF key \in DOMAIN d.fields THEN d.fields[key] ELSE JNull

\* bool(value)
Truthy(v) ==
    CASE v.type = "NoneType" -> FALSE
      [] v.type = "bool" -> v.b
      [] v.type = "int" -> v.n # 0
      [] v.type = "float" -> v.tenths # 0
      [] v.type = "str" -> v.s # ""
      [] v.type = "list" -> v.xs # <<>>
      [] v.type = "dict" -> DOMAIN v.fields # {}

\* isinstance(value, int): bool is a subclass of int
IsInstanceInt(v) == v.type \in {"int", "bool"}

\* the value of an int, True being 1 and False 0
IntValue(v) == IF v.type = "bool" THEN (IF v.b THEN 1 ELSE 0) ELSE v.n

\* what the summarizer may put under "index"
IndexValues ==
    { JInt(k) : k \in (0 - 1)..(MaxRecent + 1) }
    \cup { JStr("2"), JFloat(20), JBool(TRUE), JBool(FALSE), JNull }

\* what the summarizer may put in the pick list
PickValues ==
    { JDict([k \in {"index", "reason"} |->
                IF k = "index" THEN ix ELSE JStr("why")]) : ix \in IndexValues }
    \cup { JDict([k \in {"reason"} |-> JStr("why")]), JInt(1), JStr("1") }

\* what the summarizer may put under "picks"
PicksValues ==
    { JList(xs) : xs \in SeqsUpTo(PickValues, MaxPicks) }
    \cup { JNull, JStr("none"), JDict([k \in {"index"} |-> JInt(1)]) }

\* the text the summarizer returns, parsed
ResponseValues ==
    { JDict([k \in {"overview", "picks"} |->
                IF k = "overview" THEN JStr("news") ELSE ps]) : ps \in PicksValues }
    \cup { JDict([k \in {"overview"} |-> JStr("news")]),
           JDict(EmptyFields), JNull, JBool(TRUE), JBool(FALSE), JInt(0), JInt(7),
           JStr(""), JStr("sorry"), JList(<<>>), JList(<<JInt(1)>>) }

\* what client.messages.create and json.loads come to: an API error, a text that
\* is not JSON, or a JSON text with its value
Replies ==
    { [kind |-> "api_error"], [kind |-> "bad_json"] }
    \cup { [kind |-> "json", value |-> v] : v \in ResponseValues }

\* fetch_users: the users with an active feed
UserRow(i) == [user_id |-> i, profile |-> [display_name |-> <<"user", i>>]]

\* fetch_user_items: n recent items of the user
UserItems(user_id, n) == [k \in 1..n |-> [id |-> 10 * user_id + k]]

\* call_claude: the parsed response, or None
call_claude(reply) ==
    IF reply.kind = "json" THEN reply.value ELSE JNull

\* lines 172-184: the picks that pass the validation, resolved to item ids
RECURSIVE ValidPicks(_, _)
ValidPicks(raw_picks, items) ==
    IF raw_picks = <<>> THEN <<>>
    ELSE LET pick == Head(raw_picks)
             rest == ValidPicks(Tail(raw_picks), items)
         IN  IF pick.type # "dict" THEN rest
             ELSE LET one_based == Get(pick, "index")
                  IN  IF \/ ~IsInstanceInt(one_based)
                         \/ ~(1 <= IntValue(one_based) /\ IntValue(one_based) <= Len(items))
                      THEN rest
                      ELSE << [ item_id |-> items[IntValue(one_based)].id,
                                reason  |-> IF "reason" \in DOMAIN pick.fields
                                            THEN pick.fields["reason"].s ELSE "" ] >>
                           \o rest

\* lines 168-170: result.get("picks"), made empty when it is no list
RawPicks(result) ==
    IF Get(result, "picks").type = "list" THEN Get(result, "picks").xs ELSE <<>>

\* write_digest: the row inserted into digests
DigestRow(user_id, items, result) ==
    [ user_id           |-> user_id,
      overview          |-> IF "overview" \in DOMAIN result.fields
                            THEN result.fields["overview"] ELSE JStr(""),
      picks             |-> ValidPicks(RawPicks(result), items),
      time_window_hours |-> TIME_WINDOW_HOURS ]

IdleDigest ==
    /\ d_pc = "idle"
    /\ users = <<>>
    /\ d_ui = 1
    /\ digests = <<>>
    /\ d_last = None
    /\ d_unusable = {}

InitDigest ==
    /\ d_pc = "start"
    /\ users = <<>>
    /\ d_ui = 1
    /\ digests = <<>>
    /\ d_last = None
    /\ d_unusable = {}

\* the summarizer gave no usable response: no JSON mapping with content came back
Unusable(reply) ==
    \/ reply.kind # "json"
    \/ reply.value.type # "dict"
    \/ DOMAIN reply.value.fields = {}

Handled(user_id, items, reply, outcome) ==
    Some([user_id |-> user_id, items |-> items, reply |-> reply, outcome |-> outcome])

\* lines 196-200
DigestBegin ==
    /\ d_pc = "start"
    /\ \E n \in 0..MaxUsers : users' = [i \in 1..n |-> UserRow(i)]
    /\ d_ui' = 1
    /\ d_pc' = "loop"
    /\ UNCHANGED << digests, d_last, d_unusable >>
    /\ UNCHANGED not_digest

\* lines 208-211: the user has no recent item
NoRecentItems ==
    /\ d_pc = "loop"
    /\ d_ui <= Len(users)
    /\ d_ui' = d_ui + 1
    /\ UNCHANGED << d_pc, users, digests, d_last, d_unusable >>
    /\ UNCHANGED not_digest

\* lines 213-222: call_claude returned nothing truthy, the user is skipped
DigestSkipped ==
    /\ d_pc = "loop"
    /\ d_ui <= Len(users)
    /\ \E n \in 1..MaxRecent : \E reply \in Replies :
          LET user_id == users[d_ui].user_id
              items   == UserItems(user_id, n)
          IN  /\ ~Truthy(call_claude(reply))
              /\ d_last' = Handled(user_id, items, reply, "skipped")
              /\ d_unusable' =
                    IF Unusable(reply) THEN d_unusable \cup {user_id} ELSE d_unusable
    /\ d_ui' = d_ui + 1
    /\ UNCHANGED << d_pc, users, digests >>
    /\ UNCHANGED not_digest

\* lines 224-225: write_digest inserts the digest
DigestWritten ==
    /\ d_pc = "loop"
    /\ d_ui <= Len(users)
    /\ \E n \in 1..MaxRecent : \E reply \in Replies :
          LET user_id == users[d_ui].user_id
              items   == UserItems(user_id, n)
              result  == call_claude(reply)
          IN  /\ Truthy(result)
              /\ result.type = "dict"
              /\ digests' = Append(digests, DigestRow(user_id, items, result))
              /\ d_last' = Handled(user_id, items, reply, "written")
              /\ d_unusable' =
                    IF Unusable(reply) THEN d_unusable \cup {user_id} ELSE d_unusable
    /\ d_ui' = d_ui + 1
    /\ UNCHANGED << d_pc, users >>
    /\ UNCHANGED not_digest

\* line 168: result is truthy and no mapping, result.get raises AttributeError,
\* which nothing catches
DigestCrashed ==
    /\ d_pc = "loop"
    /\ d_ui <= Len(users)
    /\ \E n \in 1..MaxRecent : \E reply \in Replies :
          LET user_id == users[d_ui].user_id
              items   == UserItems(user_id, n)
              result  == call_claude(reply)
          IN  /\ Truthy(result)
              /\ result.type # "dict"
              /\ d_last' = Handled(user_id, items, reply, "crashed")
              /\ d_unusable' =
                    IF Unusable(reply) THEN d_unusable \cup {user_id} ELSE d_unusable
    /\ d_pc' = "crashed"
    /\ UNCHANGED << users, d_ui, digests >>
    /\ UNCHANGED not_digest

\* line 227: the loop is over
DigestEnd ==
    /\ d_pc = "loop"
    /\ d_ui > Len(users)
    /\ d_pc' = "done"
    /\ UNCHANGED << users, d_ui, digests, d_last, d_unusable >>
    /\ UNCHANGED not_digest

NextDigest ==
    \/ DigestBegin
    \/ NoRecentItems
    \/ DigestSkipped
    \/ DigestWritten
    \/ DigestCrashed
    \/ DigestEnd

(***************************************************************************)
(* Specifications                                                          *)
(***************************************************************************)
IdleIngest ==
    /\ pc = "idle"
    /\ db_feeds = <<>>
    /\ store = {}
    /\ feeds = <<>>
    /\ existing_urls = {}
    /\ url_feed_count = EmptyCount
    /\ all_candidates = <<>>
    /\ fi = 1
    /\ new_items = <<>>
    /\ seen_urls = {}
    /\ ci = 1
    /\ ck = 0
    /\ inserted = 0
    /\ failed = {}
    /\ offered = {}
    /\ used_counts = <<>>
    /\ attempted = {}
    /\ errors = {}

\* an ingestion run
Init == InitIngest /\ IdleScore /\ IdleDigest

Next == NextIngest

Spec == Init /\ [][Next]_vars

\* score_item applied to bounded inputs
ScoreInit == IdleIngest /\ InitScore /\ IdleDigest

ScoreNext == ScoreItem

SpecScore == ScoreInit /\ [][ScoreNext]_vars

\* a digest run
DigestInit == IdleIngest /\ IdleScore /\ InitDigest

DigestNext == NextDigest

SpecDigest == DigestInit /\ [][DigestNext]_vars


(***************************************************************************)
(* Ingestion run: what the claims speak of                                 *)
(***************************************************************************)
CandUrl(i) == strip(all_candidates[i].entry.link)

\* the candidates the second pass has taken so far
Processed == 1..(ci - 1)

\* the first candidate, in feed-then-entry order, that carries url
FirstWith(url) ==
    CHOOSE i \in DOMAIN all_candidates :
        /\ CandUrl(i) = url
        /\ \A k \in DOMAIN all_candidates : CandUrl(k) = url => i <= k

ItemsWith(url) == { j \in DOMAIN new_items : new_items[j].url = url }

\* the feeds that present url, counting the entries that passed the age cutoff
DistinctFeeds(url) ==
    Cardinality({ all_candidates[i].feed.id :
                    i \in { k \in DOMAIN all_candidates : CandUrl(k) = url } })

\* the entries that present url and passed the age cutoff
Occurrences(url) ==
    Cardinality({ k \in DOMAIN all_candidates : CandUrl(k) = url })

\* item j's score holds the multi-source bonus on top of its other signals
BonusIncluded(j) ==
    LET c == all_candidates[FirstWith(new_items[j].url)]
    IN  new_items[j].score
            = score_item(c.entry, c.feed, EmptyCount, Today) + 100 * MULTI_SOURCE_BUMP

AfterFirstPass == pc \in {"score", "insert", "sweep", "done"} /\ feeds # <<>>
AfterSecondPass ==
    \/ pc \in {"insert", "sweep"}
    \/ pc = "done" /\ feeds # <<>>

\* C1: no item of the output batch has a url of the persisted-url set that was
\* loaded from the items table at the start of the run.
C1_NoPersistedUrl ==
    /\ pc \in {"fetch", "score"} => existing_urls = { r.url : r \in store }
    /\ \A j \in DOMAIN new_items : new_items[j].url \notin existing_urls

\* a finished run that emitted something and passed over a persisted url
C1_Witness ==
    /\ pc = "done"
    /\ new_items # <<>>
    /\ \E i \in DOMAIN all_candidates : CandUrl(i) \in existing_urls

\* C2 (state part): a url that is not persisted and that the second pass has met
\* is in the output batch exactly once, with the feed, score, category and source
\* name of its first candidate; no url is in the batch twice.
C2_Inv ==
    /\ \A j, k \in DOMAIN new_items : new_items[j].url = new_items[k].url => j = k
    /\ \A i \in Processed :
          CandUrl(i) \notin existing_urls =>
              /\ Cardinality(ItemsWith(CandUrl(i))) = 1
              /\ LET c  == all_candidates[FirstWith(CandUrl(i))]
                     it == new_items[CHOOSE j \in ItemsWith(CandUrl(i)) : TRUE]
                 IN  /\ it.feed_id = c.feed.id
                     /\ it.category = c.feed.category
                     /\ it.source_name = c.feed.name
                     /\ it.score = score_item(c.entry, c.feed, url_feed_count, Today)

\* C2 (step part): the output batch only grows at its end
C2_Step ==
    /\ Len(new_items') >= Len(new_items)
    /\ SubSeq(new_items', 1, Len(new_items)) = new_items

\* C2: within one run, candidates that share a url that is not persisted give
\* exactly one item, that of the first-encountered candidate, and an emitted item
\* is never emitted again or retracted.
C2_FirstWins == [](C2_Inv) /\ [][C2_Step]_vars

\* a finished run where two feeds carried the same new url
C2_Witness ==
    /\ pc = "done"
    /\ \E i, k \in DOMAIN all_candidates :
          /\ i < k
          /\ CandUrl(i) = CandUrl(k)
          /\ all_candidates[i].feed.id # all_candidates[k].feed.id
          /\ CandUrl(i) \notin existing_urls
          /\ ItemsWith(CandUrl(i)) # {}

\* C3: an emitted item's score includes the +40 multi-source bonus if and only if
\* at least 3 distinct feeds present its url among the entries that passed the age
\* cutoff.
C3_BonusIffThreeFeeds ==
    \A j \in DOMAIN new_items :
        BonusIncluded(j) <=> DistinctFeeds(new_items[j].url) >= 3

\* C7: no failed store operation keeps the remaining ones from being attempted:
\* every chunk is attempted and the sweep runs whatever inserts failed, and when one
\* of the two sweep deletes fails the other is still attempted.
C7_RemainingAttempted ==
    /\ pc \in {"sweep", "done"} /\ new_items # <<>> =>
          \A i \in 0..(Len(new_items) - 1) :
              i % chunk_size = 0 => <<"insert", i>> \in attempted
    /\ pc = "done" /\ new_items # <<>> => <<"delete", "published_at">> \in attempted
    /\ pc = "done"
       /\ ( <<"delete", "published_at">> \in errors
            \/ <<"delete", "fetched_at">> \in errors ) =>
          /\ <<"delete", "published_at">> \in attempted
          /\ <<"delete", "fetched_at">> \in attempted

\* C8: when a run has finished and no store operation failed, the retention sweep
\* has run: no persisted item has a publish timestamp older than the cutoff, and no
\* persisted item without one has a fetch timestamp older than the cutoff.
C8_SweptWhenDone ==
    pc = "done" /\ errors = {} =>
        \A r \in store :
            /\ r.published_at # None => The(r.published_at) >= old_cutoff
            /\ r.published_at = None => r.fetched_at >= old_cutoff

\* C9: a feed whose fetch failed contributes no candidate and no correlation
\* count, the run goes on to every other feed, and what the other feeds offer that
\* is not persisted reaches the output batch.
C9_FailedFeedSkipped ==
    /\ \A i \in DOMAIN all_candidates : all_candidates[i].feed.id \notin failed
    /\ \A u \in DOMAIN url_feed_count : url_feed_count[u] = Occurrences(u)
    /\ \A f \in failed : \A o \in offered : o[1] # f
    /\ AfterFirstPass => fi = Len(feeds) + 1
    /\ AfterSecondPass =>
          \A o \in offered : o[2] \notin existing_urls => ItemsWith(o[2]) # {}

\* a finished run where a feed failed and a later feed's entry was emitted
C9_Witness ==
    /\ pc = "done"
    /\ \E f \in failed : \E j \in DOMAIN new_items : new_items[j].feed_id > f

\* C10: nothing is scored or emitted before every feed has been fetched, and the
\* correlation count an item's score read is the final count of its url.
C10_FinalCountUsed ==
    /\ pc \in {"start", "fetch"} => new_items = <<>> /\ used_counts = <<>>
    /\ \A j \in DOMAIN new_items : used_counts[j] = url_feed_count[new_items[j].url]


(***************************************************************************)
(* score_item and the digest run: what the claims speak of                 *)
(***************************************************************************)
\* what the publish date pd adds to the score of the scored item: its score
\* less the score of the same item without a date
RecencyWith(pd) ==
    score_item([s_item EXCEPT !.published_dt = pd], s_feed, s_count, s_now)
        - score_item([s_item EXCEPT !.published_dt = None], s_feed, s_count, s_now)

RecencyAdded ==
    The(s_score)
        - score_item([s_item EXCEPT !.published_dt = None], s_feed, s_count, s_now)

\* C4: the recency contribution score_item adds lies in [0, 50], is 0 without a
\* publish timestamp and at the 30-day boundary, and no older timestamp gets more.
C4_RecencyBounded ==
    s_pc = "scored" =>
        /\ RecencyAdded >= 0
        /\ RecencyAdded <= 100 * TIME_DECAY_MAX
        /\ s_item.published_dt = None => RecencyAdded = 0
        /\ s_item.published_dt = Some(s_now - MAX_AGE_DAYS) => RecencyAdded = 0
        /\ s_item.published_dt # None =>
              \A d \in ScoreDates :
                  d <= The(s_item.published_dt) => RecencyWith(Some(d)) <= RecencyAdded

\* the pick list as the claim reads it: the picks that are mappings with an integer
\* index in 1..N, each resolved to the id of candidate index - 1 (0-based)
RECURSIVE ExpectedIds(_, _)
ExpectedIds(raw_picks, items) ==
    IF raw_picks = <<>> THEN <<>>
    ELSE LET pick == Head(raw_picks)
             rest == ExpectedIds(Tail(raw_picks), items)
         IN  IF /\ pick.type = "dict"
                /\ "index" \in DOMAIN pick.fields
                /\ pick.fields["index"].type = "int"
                /\ pick.fields["index"].n \in 1..Len(items)
             THEN <<items[pick.fields["index"].n].id>> \o rest
             ELSE rest

LastDigest == digests[Len(digests)]

\* C5: the digest written for a user stores exactly the picks that are mappings
\* whose index is an integer in 1..N, in order, resolved to candidate index - 1; a
\* pick list that is no sequence counts as empty.
C5_PicksValidated ==
    d_last # None /\ The(d_last).outcome = "written" =>
        LET result == The(d_last).reply.value
            raw    == IF "picks" \in DOMAIN result.fields
                         /\ result.fields["picks"].type = "list"
                      THEN result.fields["picks"].xs ELSE <<>>
        IN  /\ LastDigest.user_id = The(d_last).user_id
            /\ [i \in DOMAIN LastDigest.picks |-> LastDigest.picks[i].item_id]
                   = ExpectedIds(raw, The(d_last).items)

\* C6: a user whose summarizer response is not usable gets no digest, and the run
\* is never aborted: it goes on to every later user.
C6_UnusableSkipped ==
    /\ d_pc # "crashed"
    /\ \A i \in DOMAIN digests : digests[i].user_id \notin d_unusable
    /\ d_pc = "done" => d_ui = Len(users) + 1

====
